---- MODULE Spec2Model ----
(***************************************************************************)
(* Saliency-guided image mixing (codes/data/augment.py): the region        *)
(* selectors, the eight mixers and ErrorMix's error matrix.                *)
(*                                                                         *)
(* Conventions.  A saliency map is a function [0..h-1 -> [0..w-1 -> Nat]], *)
(* rows first, as numpy indexes it.  A mixing ratio lam is the rational    *)
(* lam / LamDen, lam \in 0..LamDen.  Real numbers (labels, the error       *)
(* matrix, probabilities) are exact rationals <<n, d>>, d > 0, in lowest   *)
(* terms; <<0, 0>> is the float NaN that 0/0 produces.                     *)
(***************************************************************************)
EXTENDS Integers, Sequences, FiniteSets, TLC

VARIABLES
    variant,        \* the mixer class whose __call__ runs
    num_items,      \* images.shape[0]
    images,         \* the caller's image batch (written in place by some mixers)
    labels,         \* the caller's label batch (written in place by some mixers)
    sal_maps,       \* the caller's saliency maps
    new_images,     \* torch.zeros_like(images) of SaliencyMixFixed / ErrorMix
    new_labels,     \* torch.zeros_like(labels) of SaliencyMixFixed / ErrorMix
    copy_indices,   \* np.random.permutation(num_items) of SaliencyMixFixed
    labels_idx,     \* labels.argmax(1) of ErrorMix.__call__
    paste_idx,      \* the loop variable of the per-item mixers
    loc,            \* the other locals of __call__ that outlive an iteration
    pc,             \* position in __call__
    exp_weight,     \* ErrorMix.exp_weight
    error_matrix,   \* ErrorMix.error_matrix
    prob,           \* the last prob vector ErrorMix.__call__ built
    n_updates,      \* number of update_error_matrix calls so far
    last_update,    \* the arguments of the last update_error_matrix call
    images0,        \* history: the image batch as passed in
    labels0,        \* history: the label batch as passed in
    sal_maps0,      \* history: the saliency maps as passed in
    mixlog,         \* history: per paste index, what the mixer did to it
    sel             \* the region selector under test (SpecSel)

vars == <<variant, num_items, images, labels, sal_maps, new_images, new_labels,
          copy_indices, labels_idx, paste_idx, loc, pc, exp_weight, error_matrix,
          prob, n_updates, last_update, images0, labels0, sal_maps0, mixlog, sel>>

mixVars == <<variant, num_items, images, labels, sal_maps, new_images, new_labels,
             copy_indices, labels_idx, paste_idx, loc, pc, images0, labels0,
             sal_maps0, mixlog>>

errVars == <<exp_weight, error_matrix, prob, n_updates, last_update>>

-----------------------------------------------------------------------------
(* Bounds of the model *)

\* Saliency maps and images have at most MapH rows and MapW columns.
MapH == 3
MapW == 4
\* lam is drawn from {0, 1/LamDen, ..., 1}.
LamDen == 4
\* A batch holds 1..MaxItems items.
MaxItems == 2
\* At most MaxUpdates update_error_matrix calls are followed.
MaxUpdates == 2
\* num_classes: the width of a label and the side of the error matrix.
NumClasses == 4

(* Program constants *)

\* for i in range(10): the K of best-of-K
NumCandidates == 10
\* prob[...] = (255 - s_nonzero) / ...
SalMax == 255

-----------------------------------------------------------------------------
(* Exact rationals with NaN *)

RECURSIVE GCD(_, _)
GCD(a, b) == IF b = 0 THEN a ELSE GCD(b, a % b)

Abs(a) == IF a < 0 THEN -a ELSE a

NaN == <<0, 0>>
IsNaN(x) == x[2] = 0

Norm(n, d) ==
    IF d = 0 THEN NaN
    ELSE LET g == GCD(Abs(n), Abs(d))
             s == IF d < 0 THEN -1 ELSE 1
         IN  <<s * (n \div g), s * (d \div g)>>

Rat(n) == <<n, 1>>
Zero == <<0, 1>>
One == <<1, 1>>

RAdd(x, y) == IF IsNaN(x) \/ IsNaN(y) THEN NaN
              ELSE Norm(x[1] * y[2] + y[1] * x[2], x[2] * y[2])
RSub(x, y) == IF IsNaN(x) \/ IsNaN(y) THEN NaN
              ELSE Norm(x[1] * y[2] - y[1] * x[2], x[2] * y[2])
RMul(x, y) == IF IsNaN(x) \/ IsNaN(y) THEN NaN
              ELSE Norm(x[1] * y[1], x[2] * y[2])
\* Float division; the only zero divisor the program meets divides 0 (-> NaN).
RDiv(x, y) == IF IsNaN(x) \/ IsNaN(y) \/ y[1] = 0 THEN NaN
              ELSE Norm(x[1] * y[2], x[2] * y[1])
RAbs(x) == IF IsNaN(x) THEN NaN ELSE <<Abs(x[1]), x[2]>>
\* Comparisons with NaN are false, as in IEEE arithmetic.
RLt(x, y) == ~IsNaN(x) /\ ~IsNaN(y) /\ x[1] * y[2] < y[1] * x[2]
RLe(x, y) == ~IsNaN(x) /\ ~IsNaN(y) /\ x[1] * y[2] <= y[1] * x[2]

\* Sum of f[lo..hi], by halves as np.sum adds (exact arithmetic gives every
\* order of addition the same sum).
RECURSIVE RSum(_, _, _)
RSum(f, lo, hi) ==
    IF hi < lo THEN Zero
    ELSE IF lo = hi THEN RAdd(Zero, f[lo])
    ELSE LET mid == (lo + hi) \div 2
         IN  RAdd(RSum(f, lo, mid), RSum(f, mid + 1, hi))

-----------------------------------------------------------------------------
(* Geometry shared by the selectors *)

\* int(n * np.sqrt(1.0 - lam)): the largest m with m*m <= n*n*(1 - lam).
CutLen(n, lam) ==
    CHOOSE m \in 0..n :
        /\ m * m * LamDen <= n * n * (LamDen - lam)
        /\ (m + 1) * (m + 1) * LamDen > n * n * (LamDen - lam)

\* A clip that forgets the upper end.
ClipBelow(v, lo, hi) == IF v < lo THEN lo ELSE v

\* np.clip(v, lo, hi)
Clip(v, lo, hi) == IF v < lo THEN lo ELSE IF v > hi THEN hi ELSE v

\* A function as an explicit table.  TLC keeps [x \in S |-> e] unevaluated and
\* evaluates e again at every application; comparing it tabulates it once.
Table(f) == IF f = <<>> THEN <<>> ELSE f

\* ndarray.flatten(): row-major
Flat(m, h, w) == Table([k \in 0..(h * w - 1) |-> m[k \div w][k % w]])

\* np.unravel_index(k, (h, w))
Unravel(k, w) == <<k \div w, k % w>>

\* np.argmax: the first index, in row-major order, of a largest value
ArgMax(f, n) ==
    CHOOSE k \in 0..(n - 1) :
        /\ \A j \in 0..(n - 1) : f[j] <= f[k]
        /\ \A j \in 0..(k - 1) : f[j] < f[k]

\* The start of the slice a[i:] and the stop of the slice a[:i] on an axis of
\* length n: Python counts a negative i from the end and clamps.
SliceIndex(i, n) ==
    IF i < 0 THEN (IF n + i < 0 THEN 0 ELSE n + i)
    ELSE IF i > n THEN n ELSE i

\* The number of elements of a[r1:r2, c1:c2] for indices within the array.
BoxArea(box) ==
    (IF box[3] > box[1] THEN box[3] - box[1] ELSE 0)
  * (IF box[4] > box[2] THEN box[4] - box[2] ELSE 0)

\* The positions a[r1:r2, c1:c2] selects: box = <<r1, c1, r2, c2>>.
BoxCells(box, h, w) ==
    {q \in (0..(h - 1)) \X (0..(w - 1)) :
        /\ SliceIndex(box[1], h) <= q[1] /\ q[1] < SliceIndex(box[3], h)
        /\ SliceIndex(box[2], w) <= q[2] /\ q[2] < SliceIndex(box[4], w)}

-----------------------------------------------------------------------------
(* Peak-pixel selectors *)

_pick_most_salient_pixel(saliency_map, h, w, lam) ==
    LET cut_h == CutLen(h, lam)
        cut_w == CutLen(w, lam)
        rc    == Unravel(ArgMax(Flat(saliency_map, h, w), h * w), w)
        row   == rc[1]
        col   == rc[2]
    IN  << Clip(row - cut_h \div 2, 0, h), Clip(col - cut_w \div 2, 0, w),
           Clip(row + cut_h \div 2, 0, h), Clip(col + cut_w \div 2, 0, w) >>

\* SaliencyMix._saliency_bbox: W = size[1] is the number of rows of the image and
\* H = size[2] its number of columns; saliencyMap is what OpenCV computed from
\* the image, any W x H map of 0..255.
SaliencyMix_saliency_bbox(saliencyMap, W, H, lam) ==
    LET cut_w == CutLen(W, lam)
        cut_h == CutLen(H, lam)
        maximum_indices == Unravel(ArgMax(Flat(saliencyMap, W, H), W * H), H)
        x == maximum_indices[1]
        y == maximum_indices[2]
    IN  << Clip(x - cut_w \div 2, 0, W), Clip(y - cut_h \div 2, 0, H),
           Clip(x + cut_w \div 2, 0, W), Clip(y + cut_h \div 2, 0, H) >>

-----------------------------------------------------------------------------
(* Best-of-K local mean: LocalMeanSaliencyMix._saliency_bbox (and the copy  *)
(* of it in LocalMeanSaliencyMixFixed)                                      *)

\* saliency_map_ = saliencyMap.copy() with the four border strips set to False
LocalMeanZeroed(saliencyMap, W, H, cut_w, cut_h) ==
    Table([r \in 0..(W - 1) |-> [c \in 0..(H - 1) |->
        IF \/ r < SliceIndex(cut_w \div 2, W)
           \/ c < SliceIndex(cut_h \div 2, H)
           \/ r >= SliceIndex(W - cut_w \div 2, W)
           \/ c >= SliceIndex(H - cut_h \div 2, H)
        THEN 0 ELSE saliencyMap[r][c]]])

\* The flat indices of the nonzero entries of m.
NonzeroFlat(m, h, w) == {k \in 0..(h * w - 1) : Flat(m, h, w)[k] # 0}

\* The i-th (from 0) smallest member of S.
Nth(S, i) == CHOOSE k \in S : Cardinality({j \in S : j < k}) = i

\* np.where(m): the row coordinates and the column coordinates of the nonzero
\* entries, both in row-major order of the entries.
WhereRows(m, h, w) ==
    LET S == NonzeroFlat(m, h, w)
    IN  [i \in 0..(Cardinality(S) - 1) |-> Nth(S, i) \div w]
WhereCols(m, h, w) ==
    LET S == NonzeroFlat(m, h, w)
    IN  [i \in 0..(Cardinality(S) - 1) |-> Nth(S, i) % w]

\* len(x_y_indices[0]) = len(x_y_indices[1])
LocalMeanNumCoords(saliencyMap, W, H, lam) ==
    Cardinality(NonzeroFlat(
        LocalMeanZeroed(saliencyMap, W, H, CutLen(W, lam), CutLen(H, lam)), W, H))

\* saliencyMap[bbx1:bbx2, bby1:bby2].mean(); the mean of no element is NaN
BoxMean(saliencyMap, W, H, bbx1, bbx2, bby1, bby2) ==
    LET cells == BoxCells(<<bbx1, bby1, bbx2, bby2>>, W, H)
        flat  == [k \in 0..(W * H - 1) |->
                    IF <<k \div H, k % H>> \in cells
                    THEN Rat(saliencyMap[k \div H][k % H]) ELSE Zero]
    IN  RDiv(RSum(flat, 0, W * H - 1), Rat(Cardinality(cells)))

\* The candidate anchored at (x, y), as the pair appended to bboxes and
\* mean_values.
LocalMeanBox(W, H, lam, x, y) ==
    LET cut_w == CutLen(W, lam)
        cut_h == CutLen(H, lam)
        bbx1 == Clip(x - cut_w \div 2, 0, W)
        bby1 == Clip(y - cut_h \div 2, 0, H)
        bbx2 == Clip(x + cut_w \div 2, 0, W)
        bby2 == Clip(y + cut_h \div 2, 0, H)
    IN  <<bbx1, bbx2, bby1, bby2>>

LocalMeanCandidateAt(saliencyMap, W, H, lam, x, y) ==
    LET b == LocalMeanBox(W, H, lam, x, y)
    IN  [bbox |-> b, mean |-> BoxMean(saliencyMap, W, H, b[1], b[2], b[3], b[4])]

\* One iteration of "for i in range(10)": x_index and y_index are drawn
\* independently, each indexes its own coordinate array.
LocalMeanCandidate(saliencyMap, W, H, lam, x_index, y_index) ==
    LET saliency_map_ == LocalMeanZeroed(saliencyMap, W, H, CutLen(W, lam), CutLen(H, lam))
    IN  LocalMeanCandidateAt(saliencyMap, W, H, lam,
                             WhereRows(saliency_map_, W, H)[x_index],
                             WhereCols(saliency_map_, W, H)[y_index])

\* best = np.argmax(mean_values), kept as a running maximum over the candidates
\* appended so far: argmax returns the first NaN if there is one, and otherwise
\* the first largest value, so a later candidate replaces the best one only if
\* the best is not NaN and the candidate is NaN or strictly larger.
LocalMeanBetter(best, cand) ==
    IF IsNaN(best.mean) THEN best
    ELSE IF IsNaN(cand.mean) \/ RLt(best.mean, cand.mean) THEN cand
    ELSE best

\* f_bbx1, f_bbx2, f_bby1, f_bby2 = bboxes[best]; return f_bbx1, f_bby1, f_bbx2, f_bby2
LocalMeanReturnBox(bbox) == <<bbox[1], bbox[3], bbox[2], bbox[4]>>

\* Every box _saliency_bbox can return for this map and lam: the best of the
\* ten candidates is one of them, and a candidate is the best when all ten
\* draws repeat it.  A candidate pairs the row of one nonzero entry with the
\* column of one nonzero entry.
LocalMeanOutcomes(saliencyMap, W, H, lam) ==
    LET nz == NonzeroFlat(
                 LocalMeanZeroed(saliencyMap, W, H, CutLen(W, lam), CutLen(H, lam)), W, H)
    IN  {LocalMeanReturnBox(LocalMeanBox(W, H, lam, k1 \div H, k2 % H)) : k1 \in nz, k2 \in nz}

-----------------------------------------------------------------------------
(* Probability-weighted selector: randsalMix.randsal_bbox                    *)

\* The four in-place border assignments.  -cut_w//2 is (-cut_w)//2.
RandsalZeroed(saliency_map, h, w, cut_w, cut_h) ==
    Table([r \in 0..(h - 1) |-> [c \in 0..(w - 1) |->
        IF \/ r < SliceIndex(cut_w \div 2, h)
           \/ r >= SliceIndex((-cut_w) \div 2, h)
           \/ c < SliceIndex(cut_h \div 2, w)
           \/ c >= SliceIndex((-cut_h) \div 2, w)
        THEN 0 ELSE saliency_map[r][c]]])

\* prob, from the zeroed map and the role val (0: copy, 1: paste).
RandsalProb(zeroed, h, w, val) ==
    LET saliency_map_1d == Flat(zeroed, h, w)
        n       == h * w
        s_sum   == RSum([k \in 0..(n - 1) |-> Rat(saliency_map_1d[k])], 0, n - 1)
        inv_sum == RSum([k \in 0..(n - 1) |->
                           IF saliency_map_1d[k] # 0
                           THEN Rat(SalMax - saliency_map_1d[k]) ELSE Zero], 0, n - 1)
    IN  Table([k \in 0..(n - 1) |->
            IF saliency_map_1d[k] = 0 \/ s_sum = Zero THEN Zero
            ELSE IF val = 0 THEN RDiv(Rat(saliency_map_1d[k]), s_sum)
            ELSE IF val = 1 THEN RDiv(Rat(SalMax - saliency_map_1d[k]), inv_sum)
            ELSE Zero])

\* The indices np.random.choice(len(saliency_map_1d), p=prob) can return.
RandsalSupport(saliency_map, h, w, lam, val) ==
    LET p == RandsalProb(RandsalZeroed(saliency_map, h, w, CutLen(h, lam), CutLen(w, lam)),
                         h, w, val)
    IN  IF RSum(p, 0, h * w - 1) = One
        THEN {k \in 0..(h * w - 1) : RLt(Zero, p[k])}
        ELSE {}

\* What one call can draw: an index of the support, or -1 when prob.sum() == 1
\* is false (exactly, or by float rounding).
RandsalChoices(saliency_map, h, w, lam, val) ==
    RandsalSupport(saliency_map, h, w, lam, val) \cup {-1}

\* A selector that returns a box around the index it is given whatever the
\* sum of prob.
randsal_bbox_unchecked(saliency_map, h, w, lam, val, pick, sum_is_one) ==
    LET cut_w  == CutLen(h, lam)
        cut_h  == CutLen(w, lam)
        centre == IF pick = -1 THEN 0 ELSE pick
        cx     == Unravel(centre, w)[1]
        cy     == Unravel(centre, w)[2]
    IN  [ret |-> << cx - cut_w \div 2, cy - cut_h \div 2,
                    cx + cut_w \div 2, cy + cut_h \div 2, 1 >>,
         map |-> RandsalZeroed(saliency_map, h, w, cut_w, cut_h)]

\* randsal_bbox(saliency_map, lam, val) with pick the index np.random.choice
\* draws (a member of RandsalSupport) and sum_is_one what the float comparison
\* prob.sum() == 1 evaluates to: false when the exact sum is not 1; when the
\* exact sum is 1 the float sum may be 1.0 or one rounding off it.  Returns the
\* five values and the caller's map as the call leaves it.
randsal_bbox(saliency_map, h, w, lam, val, pick, sum_is_one) ==
    LET cut_w  == CutLen(h, lam)
        cut_h  == CutLen(w, lam)
        zeroed == RandsalZeroed(saliency_map, h, w, cut_w, cut_h)
        val1   == IF val = 0 THEN 1 ELSE val
        cx     == Unravel(pick, w)[1]
        cy     == Unravel(pick, w)[2]
    IN  IF sum_is_one
        THEN [ret |-> << cx - cut_w \div 2, cy - cut_h \div 2,
                         cx + cut_w \div 2, cy + cut_h \div 2, val1 >>,
              map |-> zeroed]
        ELSE [ret |-> << -1, -1, -1, -1, -1 >>, map |-> zeroed]

-----------------------------------------------------------------------------
(* Inputs *)

\* Saliency maps: one pixel of value lv[1] on a background of value lv[2].  The
\* family holds the all-zero map, the saturated map, maps with one nonzero
\* pixel (on a border or inside) and maps that are nonzero everywhere.
SalLevels == {<<255, 0>>, <<200, 100>>, <<0, 0>>, <<255, 255>>}

PeakMap(h, w, pr, pcol, lv) ==
    [r \in 0..(h - 1) |-> [c \in 0..(w - 1) |->
        IF r = pr /\ c = pcol THEN lv[1] ELSE lv[2]]]

SalFamily(h, w) ==
    {PeakMap(h, w, pr, pcol, lv) :
        pr \in 0..(h - 1), pcol \in 0..(w - 1), lv \in SalLevels}

Lams == 0..LamDen

\* Values of the variables a specification does not use.
NoMix ==
    /\ variant = "none" /\ num_items = 0 /\ images = <<>> /\ labels = <<>>
    /\ sal_maps = <<>> /\ new_images = <<>> /\ new_labels = <<>>
    /\ copy_indices = <<>> /\ labels_idx = <<>> /\ paste_idx = 0
    /\ loc = <<>> /\ pc = "none" /\ images0 = <<>> /\ labels0 = <<>>
    /\ sal_maps0 = <<>> /\ mixlog = <<>>

NoErr ==
    /\ exp_weight = <<>> /\ error_matrix = <<>> /\ prob = <<>>
    /\ n_updates = 0 /\ last_update = <<>>

NoSel == sel = [kind |-> "none"]

-----------------------------------------------------------------------------
(* Batches *)

ImgH == MapH
ImgW == MapW
Classes == 0..(NumClasses - 1)
Items == 0..(num_items - 1)

\* A pixel is <<item, row, column, noisy>>: the place of the input batch its
\* value comes from, and whether Gaussian noise was added to it.
Pixel(i, r, c) == <<i, r, c, FALSE>>
ZeroPixel == <<-1, -1, -1, FALSE>>
Noisy(px) == <<px[1], px[2], px[3], TRUE>>

OrigImage(i) == [r \in 0..(ImgH - 1) |-> [c \in 0..(ImgW - 1) |-> Pixel(i, r, c)]]
ZeroImage == [r \in 0..(ImgH - 1) |-> [c \in 0..(ImgW - 1) |-> ZeroPixel]]

OneHot(k) == [j \in Classes |-> IF j = k THEN One ELSE Zero]
ZeroLabel == [j \in Classes |-> Zero]

\* dst[:, r1:r2, c1:c2] = src[:, sr1:sr2, sc1:sc2] for two slices of one shape:
\* dbox = <<r1, c1, r2, c2>>, sbox = <<sr1, sc1, sr2, sc2>>.
SliceAssign(dst, dbox, src, sbox) ==
    LET cells == BoxCells(dbox, ImgH, ImgW)
        dr == SliceIndex(sbox[1], ImgH) - SliceIndex(dbox[1], ImgH)
        dc == SliceIndex(sbox[2], ImgW) - SliceIndex(dbox[2], ImgW)
    IN  Table([r \in 0..(ImgH - 1) |-> [c \in 0..(ImgW - 1) |->
            IF <<r, c>> \in cells THEN src[r + dr][c + dc] ELSE dst[r][c]]])

\* random_noise(patch, mode="gaussian", ...) written back over the box
NoiseAssign(dst, box, src) ==
    LET cells == BoxCells(box, ImgH, ImgW)
    IN  Table([r \in 0..(ImgH - 1) |-> [c \in 0..(ImgW - 1) |->
            IF <<r, c>> \in cells THEN Noisy(src[r][c]) ELSE dst[r][c]]])

\* copy_area = (r2 - r1) * (c2 - c1)
CopyArea(box) == (box[3] - box[1]) * (box[4] - box[2])

\* total_area = images.shape[-1] * images.shape[-2]
TotalArea == ImgW * ImgH

\* The fraction of the image the box covers, in place of its complement.
CoveredFraction(copy_area, total_area) ==
    RDiv(Rat(copy_area), Rat(total_area))

\* lam = 1 - copy_area / total_area
CorrectedLam(copy_area, total_area) ==
    RSub(One, RDiv(Rat(copy_area), Rat(total_area)))

\* label_a * lam + label_b * (1 - lam)
Blend(label_a, label_b, lam) ==
    [k \in DOMAIN label_a |->
        RAdd(RMul(label_a[k], lam), RMul(label_b[k], RSub(One, lam)))]

\* torch.randperm(n) / np.random.permutation(n)
Perms(n) ==
    {f \in [0..(n - 1) -> 0..(n - 1)] :
        \A i, j \in 0..(n - 1) : (f[i] = f[j]) => (i = j)}

\* History entries of mixlog: what was done for a paste index, the positions
\* written, the coefficient the labels were blended with and the Beta sample.
NotVisited == [st |-> "none", copy_idx |-> -1, box |-> <<>>, written |-> {},
               coef |-> Zero, sample |-> Zero]
Skipped(c, lam0) ==
    [st |-> "skipped", copy_idx |-> c, box |-> <<>>, written |-> {},
     coef |-> Zero, sample |-> Norm(lam0, LamDen)]
Mixed(c, box, coef, lam0) ==
    [st |-> "mixed", copy_idx |-> c, box |-> box,
     written |-> BoxCells(box, ImgH, ImgW), coef |-> coef,
     sample |-> Norm(lam0, LamDen)]

\* Saliency maps a caller passes in, and maps OpenCV computes from an image.
MixPeaks == {<<0, 0>>, <<ImgH \div 2, ImgW \div 2>>, <<ImgH - 1, ImgW - 1>>}
MixLevels == {<<255, 0>>, <<200, 100>>}
MixSalFamily ==
    {PeakMap(ImgH, ImgW, pk[1], pk[2], lv) : pk \in MixPeaks, lv \in MixLevels}

\* The classes of a batch's items: all of one class, or item i of class i.
ClassFamily(n) ==
    {[i \in 0..(n - 1) |-> 0], [i \in 0..(n - 1) |-> i % NumClasses]}

Variants == {"SaliencyMix", "SaliencyMixFixed", "ErrorMix", "LocalMeanSaliencyMix",
             "LocalMeanSaliencyMixFixed", "NoiseSaliencyMix",
             "NoiseSaliencyMixFixed", "randsalMix"}
UsesSalMaps == {"SaliencyMixFixed", "ErrorMix", "NoiseSaliencyMix",
                "NoiseSaliencyMixFixed", "randsalMix"}

\* The state in which variant v is called on a batch.
InitCall(v) ==
    /\ variant = v
    /\ num_items \in 1..MaxItems
    /\ images = [i \in Items |-> OrigImage(i)]
    /\ \E cls \in ClassFamily(num_items) :
         labels = [i \in Items |-> OneHot(cls[i])]
    /\ IF v \in UsesSalMaps
       THEN sal_maps \in [Items -> MixSalFamily]
       ELSE sal_maps = <<>>
    /\ new_images = <<>> /\ new_labels = <<>>
    /\ copy_indices = <<>> /\ labels_idx = <<>>
    /\ paste_idx = 0 /\ loc = <<>> /\ pc = "start"
    /\ images0 = images /\ labels0 = labels /\ sal_maps0 = sal_maps
    /\ mixlog = [i \in Items |-> NotVisited]

NextPc == IF paste_idx + 1 = num_items THEN "done" ELSE "loop"

-----------------------------------------------------------------------------
(* ErrorMix: the error matrix *)

\* np.full((num_classes, num_classes), 1 / num_classes)
InitialErrorMatrix == [i \in Classes |-> [j \in Classes |-> Norm(1, NumClasses)]]

\* v.min() of a vector of rationals
RMin(v) == CHOOSE x \in {v[k] : k \in DOMAIN v} : \A k \in DOMAIN v : RLe(x, v[k])

\* v.argmax(): the first index of a largest entry
ArgMaxR(v) ==
    CHOOSE k \in DOMAIN v :
        /\ \A j \in DOMAIN v : RLe(v[j], v[k])
        /\ \A j \in DOMAIN v : (j < k) => RLt(v[j], v[k])

\* Lines 161-162 for one item: subtract the minimum, divide by the sum.
NormalizeOutputs(out) ==
    LET least   == RMin(out)
        shifted == Table([k \in Classes |-> RSub(out[k], least)])
        total   == RSum(shifted, 0, NumClasses - 1)
    IN  Table([k \in Classes |-> RDiv(shifted[k], total)])

\* Line 163 for one item: np.absolute(outputs_arr - labels_arr)
DiffRow(out, label) ==
    LET normalized == NormalizeOutputs(out)
    IN  Table([k \in Classes |-> RAbs(RSub(normalized[k], label[k]))])

\* The moving average with its two weights exchanged.
UpdatedRowSwapped(row, diff, w) ==
    Table([k \in Classes |-> RAdd(RMul(w, row[k]), RMul(RSub(One, w), diff[k]))])

\* Lines 168-171: the new row label_index for one item.
UpdatedRow(row, diff, w) ==
    Table([k \in Classes |-> RAdd(RMul(w, diff[k]), RMul(RSub(One, w), row[k]))])

\* Lines 166-171: items i..n-1 of the batch, in order.  batch[i] = [out, label].
RECURSIVE UpdateFrom(_, _, _, _)
UpdateFrom(matrix, w, batch, i) ==
    IF i >= Len(batch) THEN matrix
    ELSE LET label_index == ArgMaxR(batch[i + 1].label)
             diff == DiffRow(batch[i + 1].out, batch[i + 1].label)
         IN  UpdateFrom(
                 Table([matrix EXCEPT ![label_index] =
                            UpdatedRow(matrix[label_index], diff, w)]),
                 w, batch, i + 1)

\* ErrorMix.update_error_matrix(outputs, labels)
update_error_matrix(matrix, w, batch) == UpdateFrom(matrix, w, batch, 0)

\* The batches update_error_matrix is called with.  A label is one-hot or the
\* soft label a mix produces; the scores match the label, miss it, rank every
\* class differently, or are all equal.
SoftLabel == [j \in Classes |-> IF j = 2 THEN Norm(2, NumClasses + 1)
                                ELSE Norm(1, NumClasses + 1)]
UpdateItems ==
    { [out |-> OneHot(2), label |-> OneHot(2)],
      [out |-> OneHot(1), label |-> OneHot(2)],
      [out |-> [j \in Classes |-> Rat(j)], label |-> OneHot(0)],
      [out |-> SoftLabel, label |-> SoftLabel],
      [out |-> ZeroLabel, label |-> OneHot(0)] }
UpdateBatches ==
    UNION {[1..n -> UpdateItems] : n \in 1..MaxItems}
\* The batches followed before a mix call.
UpdateBatchesBeforeMix ==
    { <<[out |-> OneHot(1), label |-> OneHot(0)]>>,
      <<[out |-> OneHot(0), label |-> OneHot(0)]>>,
      <<[out |-> ZeroLabel, label |-> OneHot(0)]>> }

Weights == {Zero, Norm(1, 2), One}

UpdateErrorMatrix(batches) ==
    /\ n_updates < MaxUpdates
    /\ \E batch \in batches :
         /\ error_matrix' = update_error_matrix(error_matrix, exp_weight, batch)
         /\ last_update' = batch
    /\ n_updates' = n_updates + 1
    /\ UNCHANGED <<exp_weight, prob, mixVars, sel>>

\* update_error_matrix on an ErrorMix object of its own: SpecErr
InitErr ==
    /\ NoMix /\ NoSel
    /\ exp_weight \in Weights
    /\ error_matrix = InitialErrorMatrix
    /\ prob = <<>> /\ n_updates = 0 /\ last_update = <<>>

UpdateAny == UpdateErrorMatrix(UpdateBatches)

NextErr == UpdateAny

SpecErr == InitErr /\ [][NextErr]_vars

-----------------------------------------------------------------------------
(* SaliencyMixFixed.__call__ *)

\* Lines 92-95: the permutation and the two zero tensors.
SaliencyMixFixedBegin ==
    /\ variant = "SaliencyMixFixed" /\ pc = "start"
    /\ copy_indices' \in Perms(num_items)
    /\ new_images' = [i \in Items |-> ZeroImage]
    /\ new_labels' = [i \in Items |-> ZeroLabel]
    /\ pc' = "loop"
    /\ UNCHANGED <<variant, num_items, images, labels, sal_maps, labels_idx,
                   paste_idx, loc, images0, labels0, sal_maps0, mixlog,
                   errVars, sel>>

\* Lines 97-109: one iteration of the loop.
SaliencyMixFixedIter ==
    /\ variant = "SaliencyMixFixed" /\ pc = "loop"
    /\ \E lam0 \in Lams :
         LET copy_idx == copy_indices[paste_idx]
             box == _pick_most_salient_pixel(sal_maps[copy_idx], ImgH, ImgW, lam0)
             lam == CorrectedLam(CopyArea(box), TotalArea)
         IN  /\ new_images' = [new_images EXCEPT ![paste_idx] =
                    SliceAssign(images[paste_idx], box, images[copy_idx], box)]
             /\ new_labels' = [new_labels EXCEPT ![paste_idx] =
                    Blend(labels[paste_idx], labels[copy_idx], lam)]
             /\ mixlog' = [mixlog EXCEPT ![paste_idx] = Mixed(copy_idx, box, lam, lam0)]
    /\ paste_idx' = paste_idx + 1
    /\ pc' = NextPc
    /\ UNCHANGED <<variant, num_items, images, labels, sal_maps, copy_indices,
                   labels_idx, loc, images0, labels0, sal_maps0, errVars, sel>>

-----------------------------------------------------------------------------
(* ErrorMix.__call__ *)

\* self.eps = 10**-12 is kept as a symbol: a number a + e * eps is [a, e], a a
\* rational and e an integer.  eps is smaller than every nonzero rational the
\* model meets, so a + e * eps has the sign of a, or of e when a = 0.
EpsNum(a, e) == [a |-> a, e |-> e]
EpsIsNaN(x) == IsNaN(x.a)
EpsIsZero(x) == x.a = Zero /\ x.e = 0
EpsSign(x) ==
    IF RLt(Zero, x.a) THEN 1 ELSE IF RLt(x.a, Zero) THEN -1
    ELSE IF x.e > 0 THEN 1 ELSE IF x.e < 0 THEN -1 ELSE 0
EpsAdd(x, y) == EpsNum(RAdd(x.a, y.a), x.e + y.e)

RECURSIVE EpsSum(_, _)
EpsSum(f, hi) == IF hi < 0 THEN EpsNum(Zero, 0) ELSE EpsAdd(EpsSum(f, hi - 1), f[hi])

\* Lines 136-138: prob before it is normalised.
PartnerWeights(matrix, lidx, p, n) ==
    [j \in 0..(n - 1) |->
        IF j = p THEN EpsNum(Zero, 0)
        ELSE EpsNum(RSub(One, matrix[lidx[p]][lidx[j]]), 1)]

\* Line 139: prob /= prob.sum().  An entry is the quotient num / den, or NaN
\* (0/0, or a NaN operand).
PartnerProb(matrix, lidx, p, n) ==
    LET weights == PartnerWeights(matrix, lidx, p, n)
        total   == EpsSum(weights, n - 1)
    IN  [j \in 0..(n - 1) |->
            IF EpsIsNaN(weights[j]) \/ EpsIsNaN(total) \/ EpsIsZero(total)
            THEN [nan |-> TRUE, num |-> EpsNum(Zero, 0), den |-> EpsNum(Zero, 0)]
            ELSE [nan |-> FALSE, num |-> weights[j], den |-> total]]

ProbSign(x) == EpsSign(x.num) * EpsSign(x.den)

\* np.random.choice(num_items, p=prob) raises ValueError when p holds a NaN or
\* a negative entry; otherwise it returns an index of positive probability.
ChoiceRaises(p, n) ==
    \E j \in 0..(n - 1) : p[j].nan \/ ProbSign(p[j]) < 0
ChoiceSupport(p, n) == {j \in 0..(n - 1) : ~p[j].nan /\ ProbSign(p[j]) > 0}

\* Lines 129-132.
ErrorMixBegin ==
    /\ variant = "ErrorMix" /\ pc = "start"
    /\ new_images' = [i \in Items |-> ZeroImage]
    /\ new_labels' = [i \in Items |-> ZeroLabel]
    /\ labels_idx' = [i \in Items |-> ArgMaxR(labels[i])]
    /\ pc' = "loop"
    /\ UNCHANGED <<variant, num_items, images, labels, sal_maps, copy_indices,
                   paste_idx, loc, images0, labels0, sal_maps0, mixlog,
                   errVars, sel>>

\* Lines 134-153: one iteration of the loop.
ErrorMixIter ==
    /\ variant = "ErrorMix" /\ pc = "loop"
    /\ LET p == PartnerProb(error_matrix, labels_idx, paste_idx, num_items)
       IN  /\ prob' = p
           /\ IF ChoiceRaises(p, num_items)
              THEN /\ pc' = "raised"
                   /\ UNCHANGED <<new_images, new_labels, mixlog, paste_idx>>
              ELSE \E copy_idx \in ChoiceSupport(p, num_items), lam0 \in Lams :
                     LET box == _pick_most_salient_pixel(sal_maps[copy_idx],
                                                         ImgH, ImgW, lam0)
                         lam == CorrectedLam(CopyArea(box), TotalArea)
                     IN  /\ new_images' = [new_images EXCEPT ![paste_idx] =
                                SliceAssign(images[paste_idx], box, images[copy_idx], box)]
                         /\ new_labels' = [new_labels EXCEPT ![paste_idx] =
                                Blend(labels[paste_idx], labels[copy_idx], lam)]
                         /\ mixlog' = [mixlog EXCEPT ![paste_idx] =
                                Mixed(copy_idx, box, lam, lam0)]
                         /\ paste_idx' = paste_idx + 1
                         /\ pc' = NextPc
    /\ UNCHANGED <<variant, num_items, images, labels, sal_maps, copy_indices,
                   labels_idx, loc, images0, labels0, sal_maps0, exp_weight,
                   error_matrix, n_updates, last_update, sel>>

\* update_error_matrix between the construction and the mix call.
UpdateBeforeMix ==
    /\ variant = "ErrorMix" /\ pc = "start"
    /\ UpdateErrorMatrix(UpdateBatchesBeforeMix)

-----------------------------------------------------------------------------
(* NoiseSaliencyMixFixed.__call__ *)

\* Lines 370-373: the whole body of the loop; it only draws and selects.
NoiseSaliencyMixFixedIter ==
    /\ variant = "NoiseSaliencyMixFixed" /\ pc \in {"start", "loop"}
    /\ \E copy_idx \in Items, lam0 \in Lams :
         loc' = [copy_idx |-> copy_idx, lam |-> lam0,
                 box |-> _pick_most_salient_pixel(sal_maps[copy_idx], ImgH, ImgW, lam0)]
    /\ paste_idx' = paste_idx + 1
    /\ pc' = IF paste_idx + 1 = num_items THEN "tail" ELSE "loop"
    /\ UNCHANGED <<variant, num_items, images, labels, sal_maps, new_images,
                   new_labels, copy_indices, labels_idx, images0, labels0,
                   sal_maps0, mixlog, errVars, sel>>

\* Lines 375-393, after the loop: paste_idx, copy_idx and the box keep the
\* values of the last iteration.
NoiseSaliencyMixFixedTail ==
    /\ variant = "NoiseSaliencyMixFixed" /\ pc = "tail"
    /\ LET last == num_items - 1
           copy_idx == loc.copy_idx
           box == loc.box
           lam0 == loc.lam
           lam == CorrectedLam(CopyArea(box), TotalArea)
       IN  /\ images' = [images EXCEPT ![last] =
                 IF BoxCells(box, ImgH, ImgW) # {}
                 THEN NoiseAssign(images[last], box, images[copy_idx])
                 ELSE SliceAssign(images[last], box, images[copy_idx], box)]
           /\ labels' = [labels EXCEPT ![last] =
                 Blend(labels[last], labels[copy_idx], lam)]
           /\ mixlog' = [mixlog EXCEPT ![last] = Mixed(copy_idx, box, lam, lam0)]
    /\ pc' = "done"
    /\ UNCHANGED <<variant, num_items, sal_maps, new_images, new_labels,
                   copy_indices, labels_idx, paste_idx, loc, images0, labels0,
                   sal_maps0, errVars, sel>>

-----------------------------------------------------------------------------
(* randsalMix.__call__ *)

\* dst[dbox] = src[sbox] when both are views of one image and the slices
\* overlap without being equal: torch copies element by element with no
\* buffer, so a cell may be read before or after it was written.  Two orders
\* are followed: every read first ("snapshot"), and row-major, each cell read
\* when its turn comes ("forward").  In row-major order the cell q + (dr, dc)
\* that q reads was written before q exactly when it is in the box and
\* precedes q; q then receives what that cell received, so q ends with the
\* original value of the first cell outside the box on the way q + n*(dr, dc).
ForwardCopy(img, cells, dr, dc) ==
    LET backward == dr < 0 \/ (dr = 0 /\ dc < 0)
        hops(q)  == IF backward
                    THEN CHOOSE n \in 1..(ImgH + ImgW) :
                           /\ <<q[1] + n * dr, q[2] + n * dc>> \notin cells
                           /\ \A m \in 1..(n - 1) :
                                <<q[1] + m * dr, q[2] + m * dc>> \in cells
                    ELSE 1
    IN  Table([r \in 0..(ImgH - 1) |-> [c \in 0..(ImgW - 1) |->
            IF <<r, c>> \in cells
            THEN img[r + hops(<<r, c>>) * dr][c + hops(<<r, c>>) * dc]
            ELSE img[r][c]]])

SelfAssign(img, dbox, sbox, order) ==
    IF order = "snapshot" THEN SliceAssign(img, dbox, img, sbox)
    ELSE ForwardCopy(img, BoxCells(dbox, ImgH, ImgW),
                     SliceIndex(sbox[1], ImgH) - SliceIndex(dbox[1], ImgH),
                     SliceIndex(sbox[2], ImgW) - SliceIndex(dbox[2], ImgW))

PartialOverlap(dbox, sbox) ==
    /\ dbox # sbox
    /\ BoxCells(dbox, ImgH, ImgW) \cap BoxCells(sbox, ImgH, ImgW) # {}

\* Lines 406-421: one iteration of the loop.  temp_labels is labels itself.
randsalMixIter ==
    /\ variant = "randsalMix" /\ pc \in {"start", "loop"}
    /\ \E copy_idx \in Items, lam0 \in Lams :
        \E cchoice \in RandsalChoices(sal_maps[copy_idx], ImgH, ImgW, lam0, 0) :
         LET c_out == randsal_bbox(sal_maps[copy_idx], ImgH, ImgW, lam0, 0,
                                   cchoice, cchoice # -1)
             maps1 == [sal_maps EXCEPT ![copy_idx] = c_out.map]
             val1  == c_out.ret[5]
         IN  \E pchoice \in RandsalChoices(maps1[paste_idx], ImgH, ImgW, lam0, val1) :
              LET p_out == randsal_bbox(maps1[paste_idx], ImgH, ImgW, lam0, val1,
                                        pchoice, pchoice # -1)
                  val   == p_out.ret[5]
                  cbox  == <<c_out.ret[1], c_out.ret[2], c_out.ret[3], c_out.ret[4]>>
                  pbox  == <<p_out.ret[1], p_out.ret[2], p_out.ret[3], p_out.ret[4]>>
                  temp_labels == labels
                  lam   == CorrectedLam(CopyArea(cbox), TotalArea)
              IN  /\ sal_maps' = [maps1 EXCEPT ![paste_idx] = p_out.map]
                  /\ IF val = -1
                     THEN /\ UNCHANGED <<images, labels>>
                          /\ mixlog' = [mixlog EXCEPT ![paste_idx] = Skipped(copy_idx, lam0)]
                     ELSE /\ \E order \in {"snapshot", "forward"} :
                               /\ (order = "forward") =>
                                    (copy_idx = paste_idx /\ PartialOverlap(pbox, cbox))
                               /\ images' = [images EXCEPT ![paste_idx] =
                                      IF copy_idx = paste_idx
                                      THEN SelfAssign(images[paste_idx], pbox, cbox, order)
                                      ELSE SliceAssign(images[paste_idx], pbox,
                                                       images[copy_idx], cbox)]
                          /\ labels' = [labels EXCEPT ![paste_idx] =
                                 Blend(temp_labels[paste_idx], temp_labels[copy_idx], lam)]
                          /\ mixlog' = [mixlog EXCEPT ![paste_idx] =
                                 Mixed(copy_idx, pbox, lam, lam0)]
    /\ paste_idx' = paste_idx + 1
    /\ pc' = NextPc
    /\ UNCHANGED <<variant, num_items, new_images, new_labels, copy_indices,
                   labels_idx, loc, images0, labels0, sal_maps0, errVars, sel>>

-----------------------------------------------------------------------------
(* LocalMeanSaliencyMixFixed.__call__ *)

\* Lines 261-272: one iteration of the loop.  saliencyMap is what OpenCV
\* computes from images[copy_idx]; np.random.choice(0) raises ValueError when
\* the border-zeroed map has no nonzero entry.
LocalMeanSaliencyMixFixedIter ==
    /\ variant = "LocalMeanSaliencyMixFixed" /\ pc \in {"start", "loop"}
    /\ \E copy_idx \in Items, lam0 \in Lams, saliencyMap \in MixSalFamily :
         LET outcomes == LocalMeanOutcomes(saliencyMap, ImgH, ImgW, lam0)
         IN  IF outcomes = {}
             THEN /\ pc' = "raised"
                  /\ UNCHANGED <<images, labels, mixlog, paste_idx>>
             ELSE \E box \in outcomes :
                    LET lam == CorrectedLam(CopyArea(box), TotalArea)
                    IN  /\ images' = [images EXCEPT ![paste_idx] =
                               SliceAssign(images[paste_idx], box, images[copy_idx], box)]
                        /\ labels' = [labels EXCEPT ![paste_idx] =
                               Blend(labels[paste_idx], labels[copy_idx], lam)]
                        /\ mixlog' = [mixlog EXCEPT ![paste_idx] =
                               Mixed(copy_idx, box, lam, lam0)]
                        /\ paste_idx' = paste_idx + 1
                        /\ pc' = NextPc
    /\ UNCHANGED <<variant, num_items, sal_maps, new_images, new_labels,
                   copy_indices, labels_idx, loc, images0, labels0, sal_maps0,
                   errVars, sel>>

-----------------------------------------------------------------------------
(* The legacy mixers: one box for the whole batch *)

\* A legacy mix that blends every label with itself (tar_b = labels, the
\* permutation forgotten).
LegacyMixOwnLabels(rand_index, box, noise, lam0) ==
    LET lam == CorrectedLam(CopyArea(box), TotalArea)
    IN  /\ images' = [i \in Items |->
               IF noise /\ BoxCells(box, ImgH, ImgW) # {}
               THEN NoiseAssign(images[i], box, images[rand_index[i]])
               ELSE SliceAssign(images[i], box, images[rand_index[i]], box)]
        /\ new_labels' = [i \in Items |-> Blend(labels[i], labels[i], lam)]
        /\ mixlog' = [i \in Items |-> Mixed(rand_index[i], box, lam, lam0)]
        /\ copy_indices' = rand_index
        /\ paste_idx' = num_items
        /\ pc' = "done"

\* What lines 42-49 (SaliencyMix), 190-197 (LocalMeanSaliencyMix) and 340-355
\* (NoiseSaliencyMix) do once the box is known.  images[rand_index, ...] is a
\* copy, so every item is read as it was before the call; labels is rebound to
\* a new tensor (new_labels), the caller's labels are not written.
LegacyMix(rand_index, box, noise, lam0) ==
    LET lam == CorrectedLam(CopyArea(box), TotalArea)
        tar_a == labels
        tar_b == [i \in Items |-> labels[rand_index[i]]]
    IN  /\ images' = [i \in Items |->
               IF noise /\ BoxCells(box, ImgH, ImgW) # {}
               THEN NoiseAssign(images[i], box, images[rand_index[i]])
               ELSE SliceAssign(images[i], box, images[rand_index[i]], box)]
        /\ new_labels' = [i \in Items |-> Blend(tar_a[i], tar_b[i], lam)]
        /\ mixlog' = [i \in Items |-> Mixed(rand_index[i], box, lam, lam0)]
        /\ copy_indices' = rand_index
        /\ paste_idx' = num_items
        /\ pc' = "done"

\* SaliencyMix.__call__, lines 37-50
SaliencyMixCall ==
    /\ variant = "SaliencyMix" /\ pc = "start"
    /\ \E lam0 \in Lams, rand_index \in Perms(num_items), saliencyMap \in MixSalFamily :
         LegacyMix(rand_index,
                   SaliencyMix_saliency_bbox(saliencyMap, ImgH, ImgW, lam0), FALSE, lam0)
    /\ UNCHANGED <<variant, num_items, labels, sal_maps, new_images, labels_idx,
                   loc, images0, labels0, sal_maps0, errVars, sel>>

\* LocalMeanSaliencyMix.__call__, lines 185-198
LocalMeanSaliencyMixCall ==
    /\ variant = "LocalMeanSaliencyMix" /\ pc = "start"
    /\ \E lam0 \in Lams, rand_index \in Perms(num_items), saliencyMap \in MixSalFamily :
         LET outcomes == LocalMeanOutcomes(saliencyMap, ImgH, ImgW, lam0)
         IN  IF outcomes = {}
             THEN /\ pc' = "raised"
                  /\ UNCHANGED <<images, new_labels, mixlog, copy_indices, paste_idx>>
             ELSE \E box \in outcomes : LegacyMix(rand_index, box, FALSE, lam0)
    /\ UNCHANGED <<variant, num_items, labels, sal_maps, new_images, labels_idx,
                   loc, images0, labels0, sal_maps0, errVars, sel>>

\* NoiseSaliencyMix.__call__, lines 333-356
NoiseSaliencyMixCall ==
    /\ variant = "NoiseSaliencyMix" /\ pc = "start"
    /\ \E lam0 \in Lams, rand_index \in Perms(num_items) :
         LegacyMix(rand_index,
                   _pick_most_salient_pixel(sal_maps[rand_index[0]], ImgH, ImgW, lam0),
                   TRUE, lam0)
    /\ UNCHANGED <<variant, num_items, labels, sal_maps, new_images, labels_idx,
                   loc, images0, labels0, sal_maps0, errVars, sel>>

\* The batch __call__ returns.
OutImages == IF variant \in {"SaliencyMixFixed", "ErrorMix"} THEN new_images ELSE images
OutLabels ==
    IF variant \in {"SaliencyMixFixed", "ErrorMix", "SaliencyMix",
                    "LocalMeanSaliencyMix", "NoiseSaliencyMix"}
    THEN new_labels ELSE labels

Init ==
    /\ \E v \in Variants : InitCall(v)
    /\ IF variant = "ErrorMix"
       THEN /\ exp_weight \in {Norm(1, 2), One}
            /\ error_matrix = InitialErrorMatrix
            /\ prob = <<>> /\ n_updates = 0 /\ last_update = <<>>
       ELSE NoErr
    /\ NoSel

Next ==
    \/ SaliencyMixFixedBegin
    \/ SaliencyMixFixedIter
    \/ UpdateBeforeMix
    \/ ErrorMixBegin
    \/ ErrorMixIter
    \/ NoiseSaliencyMixFixedIter
    \/ NoiseSaliencyMixFixedTail
    \/ randsalMixIter
    \/ LocalMeanSaliencyMixFixedIter
    \/ SaliencyMixCall
    \/ LocalMeanSaliencyMixCall
    \/ NoiseSaliencyMixCall

Spec == Init /\ [][Next]_vars

-----------------------------------------------------------------------------
(* Properties of the mixers *)

\* The paste indices the call has mixed so far.
MixedItems == {p \in Items : mixlog[p].st = "mixed"}

\* The mixer's step that mixes item p.
MixesItem(p) == mixlog[p].st # "mixed" /\ mixlog'[p].st = "mixed"

\* The variants that mix item by item.
PerItemVariants == {"SaliencyMixFixed", "ErrorMix", "LocalMeanSaliencyMixFixed",
                    "NoiseSaliencyMixFixed", "randsalMix"}

\* The per-item mixer's call has returned.
PerItemDone == variant \in PerItemVariants /\ pc = "done"

\* C1: in every variant, the coefficient the labels of a mixed item are blended
\* with is 1 - area(box) / (H * W) for the box whose pixels were overwritten,
\* and it lies in [0, 1]: the step that mixes item p leaves as its label
\* label_p * k + label_c * (1 - k) with k = 1 - (positions written) / (H * W).
C1_BlendCoefficient ==
    [][\A p \in Items :
          MixesItem(p) =>
            LET k == RSub(One, Norm(Cardinality(mixlog'[p].written), TotalArea))
            IN  /\ mixlog'[p].coef = k
                /\ RLe(Zero, k) /\ RLe(k, One)
                /\ OutLabels'[p] =
                     Blend(labels[p], labels[mixlog'[p].copy_idx], k)]_vars

\* An item of one class was mixed with an item of another class, with a
\* coefficient strictly between 0 and 1 that is not the Beta sample.
C1_Witness ==
    \E p \in MixedItems :
        /\ RLt(Zero, mixlog[p].coef) /\ RLt(mixlog[p].coef, One)
        /\ mixlog[p].coef # mixlog[p].sample
        /\ labels0[p] # labels0[mixlog[p].copy_idx]
        /\ OutLabels[p] # labels0[p]

\* C2: after a call of a per-item variant, the label returned for every mixed
\* paste index p is coef_p * L0[p] + (1 - coef_p) * L0[c_p], L0 the labels as
\* they were passed in and c_p the copy index chosen for p.
C2_LabelsFromOriginals ==
    PerItemDone =>
        \A p \in MixedItems :
            OutLabels[p] = Blend(labels0[p], labels0[mixlog[p].copy_idx],
                                 mixlog[p].coef)

\* C4: in a batch of two or more items, the copy index selected for a paste
\* index p is never p itself, in every per-item variant.
C4_PartnerDiffers ==
    (variant \in PerItemVariants /\ num_items >= 2) =>
        \A p \in Items : (mixlog[p].st # "none") => (mixlog[p].copy_idx # p)

\* In ErrorMix a batch of two or more items never pairs an item with itself.
ErrorMixPartnerDiffers ==
    (variant = "ErrorMix" /\ num_items >= 2) =>
        \A p \in Items : (mixlog[p].st # "none") => (mixlog[p].copy_idx # p)

\* The map randsal_bbox's second call in an iteration receives: the caller's
\* map of paste index p after the first call zeroed the borders of map c.
PasteMap(p, c, lam0) ==
    IF c = p
    THEN RandsalZeroed(sal_maps[c], ImgH, ImgW, CutLen(ImgH, lam0), CutLen(ImgW, lam0))
    ELSE sal_maps[p]

\* No valid distribution for the copy map c or for the paste map p at lam0.
Degenerate(p, c, lam0) ==
    \/ RandsalSupport(sal_maps[c], ImgH, ImgW, lam0, 0) = {}
    \/ RandsalSupport(PasteMap(p, c, lam0), ImgH, ImgW, lam0, 1) = {}

\* C5: in randsalMix, an iteration whose copy map or paste map has no valid
\* distribution skips item p; a skipped item keeps its image and its label, the
\* loop goes on with p + 1, the call never raises, and when it returns every
\* paste index was visited.
C5_DegenerateIsSkipped ==
    /\ [][\A p \in Items :
            (variant = "randsalMix" /\ paste_idx = p /\ paste_idx' = p + 1) =>
              LET c    == mixlog'[p].copy_idx
                  lam0 == mixlog'[p].sample[1] * (LamDen \div mixlog'[p].sample[2])
              IN  /\ Degenerate(p, c, lam0) => (mixlog'[p].st = "skipped")
                  /\ (mixlog'[p].st = "skipped") =>
                        /\ images'[p] = images[p]
                        /\ labels'[p] = labels[p]
                        /\ pc' = NextPc]_vars
    /\ []((variant = "randsalMix") => (pc # "raised"))
    /\ []((variant = "randsalMix" /\ pc = "done") =>
            \A p \in Items : mixlog[p].st \in {"mixed", "skipped"})

\* randsalMix skipped its first item over a map that border-zeroing empties,
\* then mixed the next one.
C5_Witness ==
    /\ variant = "randsalMix" /\ pc = "done" /\ num_items = 2
    /\ mixlog[0].st = "skipped" /\ mixlog[1].st = "mixed"
    /\ images[0] = images0[0] /\ labels[0] = labels0[0]
    /\ RandsalSupport(sal_maps0[mixlog[0].copy_idx], ImgH, ImgW,
                      mixlog[0].sample[1] * (LamDen \div mixlog[0].sample[2]), 0) = {}

\* C6: the saliency maps the caller passed in hold, at every point of a mix
\* call and after it, the values they were passed in with.
C6_MapsReadOnly == sal_maps = sal_maps0

\* C10: when a per-item variant returns, every paste index 0..N-1 was either
\* mixed (pixels overwritten, label blended) or skipped over a degenerate
\* region selection.
C10_EveryItemProcessed ==
    PerItemDone => \A p \in Items : mixlog[p].st \in {"mixed", "skipped"}

\* The paste index the last prob vector was built for.
ProbIndex == IF pc = "raised" THEN paste_idx ELSE paste_idx - 1

\* C9: the partner distribution ErrorMix builds for paste index p holds no NaN
\* and no negative entry, is 0 at p, is at every other item j the weight
\* (1 - error_matrix[class(p)][class(j)]) + eps over the sum of the weights,
\* and sums to 1 (the numerators add up to the common denominator), for every
\* batch size N >= 1 and every reachable error matrix.
C9_PartnerDistribution ==
    (variant = "ErrorMix" /\ prob # <<>>) =>
        /\ \A j \in Items : ~prob[j].nan /\ ProbSign(prob[j]) >= 0
        /\ ProbSign(prob[ProbIndex]) = 0
        /\ \A j \in Items \ {ProbIndex} :
              prob[j].num =
                EpsNum(RSub(One, error_matrix[labels_idx[ProbIndex]][labels_idx[j]]), 1)
        /\ \A j \in Items :
              prob[j].den = EpsSum([i \in Items |-> prob[i].num], num_items - 1)

\* The variants that mix the whole batch with one box.
LegacyVariants == {"SaliencyMix", "LocalMeanSaliencyMix", "NoiseSaliencyMix"}

\* The legacy mixer's call has returned.
LegacyDone == variant \in LegacyVariants /\ pc = "done"

\* The Beta sample of a history entry as the numerator over LamDen.
SampleOf(entry) == entry.sample[1] * (LamDen \div entry.sample[2])

\* C11: a legacy variant's call uses one permutation rand_index, one Beta
\* sample and one box for the whole batch (in NoiseSaliencyMix the box of the
\* saliency map at rand_index[0]); in every item p the positions of that box
\* hold the pixels item rand_index[p] had at those positions before the call
\* (with Gaussian noise added in NoiseSaliencyMix), the other positions are
\* as they were; and every returned label is
\* k * L0[p] + (1 - k) * L0[rand_index[p]] for the one k = 1 - area(box)/(H*W).
C11_OneBoxForTheBatch ==
    LegacyDone =>
        LET box == mixlog[0].box
            k   == RSub(One, Norm(Cardinality(BoxCells(box, ImgH, ImgW)), TotalArea))
        IN  /\ copy_indices \in Perms(num_items)
            /\ \A p \in Items :
                 /\ mixlog[p].st = "mixed"
                 /\ mixlog[p].copy_idx = copy_indices[p]
                 /\ mixlog[p].box = box
                 /\ mixlog[p].sample = mixlog[0].sample
                 /\ mixlog[p].coef = k
                 /\ OutLabels[p] = Blend(labels0[p], labels0[copy_indices[p]], k)
                 /\ \A r \in 0..(ImgH - 1), c \in 0..(ImgW - 1) :
                      IF <<r, c>> \in BoxCells(box, ImgH, ImgW)
                      THEN OutImages[p][r][c] =
                             IF variant = "NoiseSaliencyMix"
                             THEN Noisy(images0[copy_indices[p]][r][c])
                             ELSE images0[copy_indices[p]][r][c]
                      ELSE OutImages[p][r][c] = images0[p][r][c]
            /\ (variant = "NoiseSaliencyMix") =>
                 box = _pick_most_salient_pixel(sal_maps0[copy_indices[0]],
                                                ImgH, ImgW, SampleOf(mixlog[0]))

\* C11 as worded, for the pixels: in every item p the positions of the one box
\* hold exactly the pixels item rand_index[p] had there before the call.
\* NoiseSaliencyMix with a box that is not empty writes those pixels with
\* Gaussian noise added instead.
C11_PixelsCopiedUnchanged ==
    LegacyDone =>
        \A p \in Items : \A q \in BoxCells(mixlog[0].box, ImgH, ImgW) :
            OutImages[p][q[1]][q[2]] = images0[copy_indices[p]][q[1]][q[2]]

\* A legacy call exchanged a box of two items of different classes: the
\* permutation swaps them, the box is neither empty nor the whole image, each
\* item holds pixels of the other in the box and the label of item 1 changed.
C11_Witness ==
    /\ LegacyDone /\ num_items = 2
    /\ copy_indices[0] = 1 /\ copy_indices[1] = 0
    /\ labels0[0] # labels0[1]
    /\ RLt(Zero, mixlog[0].coef) /\ RLt(mixlog[0].coef, One)
    /\ \E q \in mixlog[1].written : OutImages[1][q[1]][q[2]][1] = 0
    /\ \E q \in mixlog[0].written : OutImages[0][q[1]][q[2]][1] = 1
    /\ OutLabels[1] # labels0[1]

-----------------------------------------------------------------------------
(* Properties of the error matrix *)

\* C7: after any sequence of update_error_matrix calls from the uniform
\* matrix, every entry of the error matrix is a number (not NaN) and is not
\* negative.
C7_MatrixFiniteNonNegative ==
    (error_matrix # <<>>) =>
        \A i, j \in Classes :
            ~IsNaN(error_matrix[i][j]) /\ RLe(Zero, error_matrix[i][j])

\* The dominant classes of the items of a batch.
BatchClasses(batch) == {ArgMaxR(batch[i].label) : i \in 1..Len(batch)}

\* The batch of the scenario: one item of class 2 whose scores equal its label.
MatchingClass2 == <<[out |-> OneHot(2), label |-> OneHot(2)]>>

\* C8: one update_error_matrix call leaves every row that is not the dominant
\* class of an item of the batch as it was; the row i of the last item's
\* dominant class ends as w * |normalized output - label| + (1 - w) * row_i,
\* row_i as the items before it left it; and from the initial matrix, a batch
\* of one item of class 2 whose outputs equal its label leaves the other rows at
\* 1/C and every entry of row 2 at (1 - w) * 1/C, below 1/C when w > 0.
C8_RowUpdate ==
    [][(n_updates' = n_updates + 1) =>
         LET batch  == last_update'
             w      == exp_weight
             n      == Len(batch)
             i      == ArgMaxR(batch[n].label)
             normal == NormalizeOutputs(batch[n].out)
             before == update_error_matrix(error_matrix, w, SubSeq(batch, 1, n - 1))
         IN  /\ \A r \in Classes \ BatchClasses(batch) :
                    error_matrix'[r] = error_matrix[r]
             /\ (n = 1) => (before = error_matrix)
             /\ \A k \in Classes :
                    error_matrix'[i][k] =
                      RAdd(RMul(w, RAbs(RSub(normal[k], batch[n].label[k]))),
                           RMul(RSub(One, w), before[i][k]))
             /\ (error_matrix = InitialErrorMatrix /\ batch = MatchingClass2) =>
                    /\ \A r \in Classes \ {2} :
                          error_matrix'[r] = InitialErrorMatrix[r]
                    /\ \A k \in Classes :
                          /\ error_matrix'[2][k] =
                               RMul(RSub(One, w), Norm(1, NumClasses))
                          /\ RLt(Zero, w) =>
                               RLt(error_matrix'[2][k], Norm(1, NumClasses))
      ]_vars

\* The scenario happened with w = 1/2: row 2 is at half of 1/C, row 0 at 1/C.
C8_Witness ==
    /\ n_updates = 1 /\ last_update = MatchingClass2
    /\ exp_weight = Norm(1, 2)
    /\ \A k \in Classes : error_matrix[2][k] = Norm(1, 2 * NumClasses)
    /\ error_matrix[0] = InitialErrorMatrix[0]

-----------------------------------------------------------------------------
(* The region selectors as functions of their inputs: SpecSel *)

SelKinds == {"peak", "legacy_peak", "local_mean", "randsal"}

InitSel ==
    /\ NoMix
    /\ NoErr
    /\ \E kind \in SelKinds, h \in 1..MapH, w \in 1..MapW, lam \in Lams :
         \E m \in SalFamily(h, w), val \in {0, 1, -1} :
            /\ (kind # "randsal") => (val = 0)
            /\ sel = [kind |-> kind, h |-> h, w |-> w, map |-> m, lam |-> lam,
                      val |-> val, i |-> 0, best |-> <<>>, ret |-> <<>>,
                      map_after |-> m, st |-> "ready"]

SelPickMostSalientPixel ==
    /\ sel.kind = "peak" /\ sel.st = "ready"
    /\ sel' = [sel EXCEPT
                 !.ret = _pick_most_salient_pixel(sel.map, sel.h, sel.w, sel.lam),
                 !.st = "returned"]
    /\ UNCHANGED <<mixVars, errVars>>

SelSaliencyBBox ==
    /\ sel.kind = "legacy_peak" /\ sel.st = "ready"
    /\ sel' = [sel EXCEPT
                 !.ret = SaliencyMix_saliency_bbox(sel.map, sel.h, sel.w, sel.lam),
                 !.st = "returned"]
    /\ UNCHANGED <<mixVars, errVars>>

\* One iteration of the candidate loop; np.random.choice(0) raises ValueError.
SelLocalMeanDraw ==
    /\ sel.kind = "local_mean" /\ sel.st = "ready" /\ sel.i < NumCandidates
    /\ LET L == LocalMeanNumCoords(sel.map, sel.h, sel.w, sel.lam)
       IN  IF L = 0
           THEN sel' = [sel EXCEPT !.st = "raised"]
           ELSE \E x_index \in 0..(L - 1), y_index \in 0..(L - 1) :
                  LET cand == LocalMeanCandidate(sel.map, sel.h, sel.w, sel.lam,
                                                 x_index, y_index)
                  IN  sel' = [sel EXCEPT
                                !.i = sel.i + 1,
                                !.best = IF sel.i = 0 THEN cand
                                         ELSE LocalMeanBetter(sel.best, cand)]
    /\ UNCHANGED <<mixVars, errVars>>

SelLocalMeanReturn ==
    /\ sel.kind = "local_mean" /\ sel.st = "ready" /\ sel.i = NumCandidates
    /\ sel' = [sel EXCEPT !.ret = LocalMeanReturnBox(sel.best.bbox), !.st = "returned"]
    /\ UNCHANGED <<mixVars, errVars>>

SelRandsalBBox ==
    /\ sel.kind = "randsal" /\ sel.st = "ready"
    /\ \E choice \in RandsalChoices(sel.map, sel.h, sel.w, sel.lam, sel.val) :
         LET out == randsal_bbox(sel.map, sel.h, sel.w, sel.lam, sel.val,
                                 choice, choice # -1)
         IN  sel' = [sel EXCEPT !.ret = out.ret, !.map_after = out.map,
                                !.st = "returned"]
    /\ UNCHANGED <<mixVars, errVars>>

NextSel ==
    \/ SelPickMostSalientPixel
    \/ SelSaliencyBBox
    \/ SelLocalMeanDraw
    \/ SelLocalMeanReturn
    \/ SelRandsalBBox

SpecSel == InitSel /\ [][NextSel]_vars

\* The box a selector returned, if it returned one.
SelBox == <<sel.ret[1], sel.ret[2], sel.ret[3], sel.ret[4]>>
SelReturnedBox ==
    /\ sel.kind # "none" /\ sel.st = "returned"
    /\ (sel.kind = "randsal") => (sel.ret[5] # -1)

\* C3: every box a region selector returns (peak pixel, legacy peak pixel,
\* best-of-K local mean, and any non-sentinel result of the probability-weighted
\* selector) has 0 <= row1 <= row2 <= H and 0 <= col1 <= col2 <= W.
C3_BoxWithinMap ==
    SelReturnedBox =>
        /\ 0 <= SelBox[1] /\ SelBox[1] <= SelBox[3] /\ SelBox[3] <= sel.h
        /\ 0 <= SelBox[2] /\ SelBox[2] <= SelBox[4] /\ SelBox[4] <= sel.w

\* A selector returned a box of positive area that touches the map's last row
\* and last column (the clipping or the border zeroing decided its edge).
C3_Witness ==
    /\ SelReturnedBox
    /\ sel.kind = "randsal"
    /\ BoxArea(SelBox) > 0
    /\ SelBox[3] = sel.h - 1 /\ SelBox[4] = sel.w - 1

\* The best-of-K selector returns one of LocalMeanOutcomes.
LocalMeanReturnsAnOutcome ==
    (sel.kind = "local_mean" /\ sel.st = "returned")
        => SelBox \in LocalMeanOutcomes(sel.map, sel.h, sel.w, sel.lam)

====
